---- MODULE Spec2Model ----
(***************************************************************************)
(* The workflow orchestration control plane of workflow_api.py: the        *)
(* in-memory store of workflows, tasks and agents, the request handlers    *)
(* that mutate it, the detached workflow executions, the assignment loop   *)
(* and the WebSocket broadcaster.  Coroutines are cut at their awaits: one *)
(* action is the code a coroutine runs between two suspensions.            *)
(***************************************************************************)
EXTENDS Integers, Sequences, FiniteSets, TLC

\* ---------------------------------------------------------------- bounds
NumTaskIds == 5       \* size of the pool of task ids (uuids in the program)
MaxErrors == 2        \* longest error list a task is allowed to grow to
MaxClock == 2         \* last instant of the wall clock
MaxExec == 2          \* detached executions alive at once for one workflow
MaxSubtasks == 2      \* most subtasks one decomposition returns
MaxGenTasks == 3      \* most tasks the generator puts in a new workflow

\* ------------------------------------------------------------ value sets
WorkflowIds == {"w1", "w2", "w3"}
TaskIds == 1..NumTaskIds
AgentIds == {"a1", "a2", "a3", "a4"}
Connections == {"c1", "c2", "c3"}
HandlerIds == {"h1", "h2"}
\* the coroutines that call broadcast: the request handlers and progress_tracker
Broadcasters == HandlerIds \cup {"progress_tracker"}
None == "None"
NoTask == 0

TaskStatus == {"pending", "in_progress", "completed", "failed", "cancelled"}
WorkflowStatus == {"pending", "executing", "completed", "failed"}
\* status strings a request may carry: the enum values and two others
StatusStrings == TaskStatus \cup {"COMPLETED", "done"}
\* request.result: absent, an empty dict (falsy), or a payload
ResultInputs == {None, "empty", "r1", "r2"}
ErrorStrings == {"e1", "e2"}
\* request.errors: absent, an empty list (falsy), or a list of strings
ErrorLists == {<<>>, <<"e1">>, <<"e2">>, <<"e1", "e2">>}
ErrorInputs == {[given |-> FALSE, list |-> <<>>]} \cup
               {[given |-> TRUE, list |-> l] : l \in ErrorLists}

VARIABLES
    workflows_storage,   \* dict workflow id -> Workflow (status, tasks, agents)
    tasks,               \* the Task objects, by id
    current_tasks,       \* Agent.current_tasks, by agent id
    next_task_id,        \* next unused task id
    now,                 \* datetime.now()
    active_connections,  \* WebSocketManager.active_connections
    handlers,            \* request handlers suspended at an await
    executions,          \* detached execute_workflow_background coroutines
    assign_loop,         \* background_workflow_processor
    progress_loop,       \* progress_tracker
    received,            \* the accepted WebSockets and what their clients recorded
    serial,              \* the task fields after the accepted writes, one by one
    last                 \* what the step just taken did

vars == <<workflows_storage, tasks, current_tasks, next_task_id, now,
          active_connections, handlers, executions, assign_loop, progress_loop,
          received, serial, last>>

\* ------------------------------------------------------------ helpers
Range(s) == {s[i] : i \in 1..Len(s)}

\* list.index(x): the position of the first element equal to x
IndexOf(s, x) == CHOOSE i \in 1..Len(s) : s[i] = x /\ \A j \in 1..(i - 1) : s[j] # x

\* list.remove(x): drops the first element equal to x
Remove(s, x) ==
    LET i == IndexOf(s, x)
    IN SubSeq(s, 1, i - 1) \o SubSeq(s, i + 1, Len(s))

NoEvent == [type |-> "none", workflow_id |-> None, task_id |-> NoTask,
            old_status |-> None, new_status |-> None, progress |-> 0,
            subtasks_count |-> 0, task_distribution |-> [s \in TaskStatus |-> 0]]

NewTask == [status |-> "pending", result |-> None, errors |-> <<>>,
            completed_at |-> 0, assigned_agent_id |-> None, dependencies |-> <<>>]

\* the Task object with id t as its creator makes it: it depends on the task
\* created just before it
CreatedTask(t) == [NewTask EXCEPT !.dependencies = IF t > 1 THEN <<t - 1>> ELSE <<>>]

IdleHandler == [pc |-> "idle", op |-> None, arg |-> None, wf |-> None, task |-> NoTask,
                event |-> NoEvent, idx |-> 0, conn |-> None,
                disconnected |-> {}, resp |-> None,
                initial |-> {}, delivered |-> {}]

Stored == DOMAIN workflows_storage

\* Workflow.progress_percentage of a task sequence ts whose Task objects are
\* tm, in hundredths of a percent
progress_percentage(ts, tm) ==
    LET done == Cardinality({i \in 1..Len(ts) : tm[ts[i]].status = "completed"})
    IN IF Len(ts) = 0 THEN 0 ELSE (done * 10000) \div Len(ts)

find_task_among_all_created(task_id) ==
    IF \E w \in Stored : task_id \in Range(workflows_storage[w].tasks)
    THEN CHOOSE w \in Stored : task_id \in Range(workflows_storage[w].tasks)
    ELSE IF task_id < next_task_id /\ Stored # {}
    THEN CHOOSE w \in Stored : TRUE
    ELSE None

find_task_first_workflow(task_id) ==
    IF \E w \in Stored : task_id \in Range(workflows_storage[w].tasks)
    THEN CHOOSE w \in Stored : "w1" \in Stored => w = "w1"
    ELSE None

\* the workflow whose task sequence holds task_id (the nested for loops of
\* update_task and decompose_task), or None
find_task(task_id) ==
    IF \E w \in Stored : task_id \in Range(workflows_storage[w].tasks)
    THEN CHOOSE w \in Stored : task_id \in Range(workflows_storage[w].tasks)
    ELSE None

\* TaskStatus(value): the member with that value, or ValueError
ParseTaskStatus(value) == IF value \in TaskStatus THEN value ELSE "ValueError"

\* a step: the operation, the status string it was asked for (update_task),
\* the workflow and task it is about, the response it returned, if any, and the
\* event it handed to broadcast, if any; the step in which a broadcast returns
\* carries its event, the connections registered when it was called, those
\* send_json returned for and those it raised for
Step(op, arg, w, t, r, e) ==
    [op |-> op, arg |-> arg, wf |-> w, task |-> t, resp |-> r, event |-> e,
     initial |-> {}, delivered |-> {}, failed |-> {}]

\* ------------------------------------------------ WebSocketManager
RespondDetached(h, op, arg, w, t, e, r) ==
    IF active_connections = <<>> \/ h = "h2" \/ handlers["h2"].pc # "idle"
    THEN IF active_connections = <<>>
         THEN /\ handlers' = [handlers EXCEPT ![h] = IdleHandler]
              /\ last' = Step(op, arg, w, t, r, e)
         ELSE /\ handlers' = [handlers EXCEPT ![h] =
                     [pc |-> "send", op |-> op, arg |-> arg, wf |-> w, task |-> t,
                      event |-> e, idx |-> 1, conn |-> active_connections[1],
                      disconnected |-> {}, resp |-> r,
                      initial |-> Range(active_connections), delivered |-> {}]]
              /\ last' = Step(op, arg, w, t, "suspended", e)
    ELSE /\ handlers' = [handlers EXCEPT
                !["h2"] = [pc |-> "send", op |-> op, arg |-> arg, wf |-> w, task |-> t,
                           event |-> e, idx |-> 1, conn |-> active_connections[1],
                           disconnected |-> {}, resp |-> r,
                           initial |-> Range(active_connections), delivered |-> {}],
                ![h] = IdleHandler]
         /\ last' = Step(op, arg, w, t, r, e)

\* A handler whose last statements are `await websocket_manager.broadcast(e)`
\* and `return r`.  With no connection the for loop of broadcast has no
\* iteration and the handler returns without suspending; otherwise it calls
\* send_json on the first connection and is suspended there.
Respond(h, op, arg, w, t, e, r) ==
    IF active_connections = <<>>
    THEN /\ handlers' = [handlers EXCEPT ![h] = IdleHandler]
         /\ last' = Step(op, arg, w, t, r, e)
    ELSE /\ handlers' = [handlers EXCEPT ![h] =
                [pc |-> "send", op |-> op, arg |-> arg, wf |-> w, task |-> t, event |-> e,
                 idx |-> 1, conn |-> active_connections[1],
                 disconnected |-> {}, resp |-> r,
                 initial |-> Range(active_connections), delivered |-> {}]]
         /\ last' = Step(op, arg, w, t, "suspended", e)

\* A handler that raises HTTPException (or returns) without broadcasting.
Reject(h, op, arg, w, t, r) ==
    /\ handlers' = [handlers EXCEPT ![h] = IdleHandler]
    /\ last' = Step(op, arg, w, t, r, NoEvent)

Store == <<workflows_storage, tasks, current_tasks, next_task_id, serial>>

\* WebSocketManager.connect; a WebSocket is accepted once.  recording tells
\* whether its client keeps the events it is sent.
connect(c, recording) ==
    /\ c \notin DOMAIN received
    /\ c \notin Range(active_connections)
    /\ active_connections' = Append(active_connections, c)
    /\ received' = (c :> [recording |-> recording, events |-> <<>>]) @@ received
    /\ last' = Step("connect", None, None, NoTask, None, NoEvent)
    /\ UNCHANGED <<Store, now, handlers, executions, assign_loop, progress_loop>>

disconnect(conns, c) == IF c \in Range(conns) THEN Remove(conns, c) ELSE conns

RECURSIVE Prune(_, _)
Prune(conns, disconnected) ==
    IF disconnected = {} THEN conns
    ELSE LET c == CHOOSE x \in disconnected : TRUE
         IN Prune(disconnect(conns, c), disconnected \ {c})

\* websocket_endpoint: receive_text raises WebSocketDisconnect
websocket_disconnect(c) ==
    /\ c \in Range(active_connections)
    /\ active_connections' = disconnect(active_connections, c)
    /\ last' = Step("disconnect", None, None, NoTask, None, NoEvent)
    /\ UNCHANGED <<Store, now, handlers, executions, assign_loop, progress_loop,
                   received>>

\* connection.send_json(message) has returned: the client of c has the event
send_json(rcv, c, e) ==
    IF rcv[c].recording THEN [rcv EXCEPT ![c].events = Append(@, e)] ELSE rcv

BroadcastStepRaising(H, ok) ==
    LET nxt == H.idx + 1
        more == nxt <= Len(active_connections)
    IN [done |-> ~ok \/ ~more,
        handler |-> [H EXCEPT !.idx = nxt,
                              !.conn = IF more THEN active_connections[nxt] ELSE None,
                              !.delivered = IF ok THEN @ \cup {H.conn} ELSE @,
                              !.resp = IF ok THEN @ ELSE "500"],
        conns |-> active_connections]

BroadcastStepDroppingDelivered(H, ok) ==
    LET disc == H.disconnected \cup {H.conn}
        nxt == H.idx + 1
        more == nxt <= Len(active_connections)
    IN [done |-> ~more,
        handler |-> [H EXCEPT !.idx = nxt,
                              !.conn = IF more THEN active_connections[nxt] ELSE None,
                              !.disconnected = disc,
                              !.delivered = IF ok THEN @ \cup {H.conn} ELSE @],
        conns |-> IF more THEN active_connections
                  ELSE Prune(active_connections, disc)]

\* broadcast H resumes: send_json on the current connection has returned (ok)
\* or raised; the for loop goes to the next position of the live list, or
\* ends, and then the failed connections are removed and broadcast returns.
BroadcastStep(H, ok) ==
    LET disc == IF ok THEN H.disconnected ELSE H.disconnected \cup {H.conn}
        nxt == H.idx + 1
        more == nxt <= Len(active_connections)
    IN [done |-> ~more,
        handler |-> [H EXCEPT !.idx = nxt,
                              !.conn = IF more THEN active_connections[nxt] ELSE None,
                              !.disconnected = disc,
                              !.delivered = IF ok THEN @ \cup {H.conn} ELSE @],
        conns |-> IF more THEN active_connections
                  ELSE Prune(active_connections, disc)]

\* the step in which the broadcast H returns to its caller
Returned(H) ==
    [Step("return", None, H.wf, H.task, H.resp, H.event) EXCEPT
        !.initial = H.initial, !.delivered = H.delivered, !.failed = H.disconnected]

\* broadcast resumes in handler h, which returns when broadcast does
broadcast_resume(h, ok) ==
    /\ handlers[h].pc = "send"
    /\ LET H == handlers[h]
           B == BroadcastStep(H, ok)
       IN /\ handlers' = [handlers EXCEPT ![h] = IF B.done THEN IdleHandler
                                                 ELSE B.handler]
          /\ active_connections' = B.conns
          /\ received' = IF ok THEN send_json(received, H.conn, H.event) ELSE received
          /\ last' = IF B.done THEN Returned(B.handler)
                     ELSE Step("send", None, H.wf, H.task, "suspended", NoEvent)
    /\ UNCHANGED <<Store, now, executions, assign_loop, progress_loop>>

\* ------------------------------------------------ create_workflow
\* WorkflowGenerator.generate_workflow: a new workflow with a new id, n new
\* pending tasks and its own agents
GenAgents(w) == IF w = "w1" THEN {"a1", "a2"} ELSE IF w = "w2" THEN {"a3"} ELSE {"a4"}

NewWorkflowId ==
    IF "w1" \notin Stored THEN "w1" ELSE IF "w2" \notin Stored THEN "w2" ELSE "w3"

generate_workflow(n) ==
    [status |-> "pending",
     tasks |-> [i \in 1..n |-> next_task_id + i - 1],
     agents |-> GenAgents(NewWorkflowId)]

StorageWithEmptyWorkflowAfterGeneratorError(ws) ==
    IF DOMAIN ws = WorkflowIds THEN ws
    ELSE (NewWorkflowId :> [status |-> "pending", tasks |-> <<>>,
                           agents |-> GenAgents(NewWorkflowId)]) @@ ws

\* workflows_storage when workflow_generator.generate_workflow raises: line 114
\* is skipped
StorageAfterGeneratorError(ws) == ws

create_workflow_storing_after_broadcast(h, n, generated) ==
    /\ handlers[h].pc = "idle"
    /\ IF generated
       THEN /\ Stored # WorkflowIds
            /\ next_task_id + n - 1 <= NumTaskIds
            /\ LET w == NewWorkflowId
               IN /\ workflows_storage' =
                        IF active_connections = <<>>
                        THEN (w :> generate_workflow(n)) @@ workflows_storage
                        ELSE workflows_storage
                  /\ next_task_id' = next_task_id + n
                  /\ Respond(h, "create", None, w, NoTask,
                             [NoEvent EXCEPT !.type = "workflow_created",
                                             !.workflow_id = w],
                             "success")
       ELSE /\ Reject(h, "create", "generator raised", None, NoTask, "500")
            /\ UNCHANGED <<workflows_storage, next_task_id>>
    /\ UNCHANGED <<tasks, current_tasks, serial, now, executions, assign_loop, progress_loop,
                   active_connections, received>>

\* the handler from the return (or the exception) of the generator on
create_workflow(h, n, generated) ==
    /\ handlers[h].pc = "idle"
    /\ IF generated
       THEN /\ Stored # WorkflowIds
            /\ next_task_id + n - 1 <= NumTaskIds
            /\ LET w == NewWorkflowId
                   workflow == generate_workflow(n)
               IN /\ workflows_storage' = (w :> workflow) @@ workflows_storage
                  /\ next_task_id' = next_task_id + n
                  /\ Respond(h, "create", None, w, NoTask,
                             [NoEvent EXCEPT !.type = "workflow_created",
                                             !.workflow_id = w],
                             "success")
       ELSE /\ Reject(h, "create", "generator raised", None, NoTask, "500")
            /\ workflows_storage' = StorageAfterGeneratorError(workflows_storage)
            /\ UNCHANGED next_task_id
    /\ UNCHANGED <<tasks, current_tasks, serial, now, executions, assign_loop, progress_loop,
                   active_connections, received>>

\* ------------------------------------------------ start_workflow
Alive(w) == executions[w].scheduled + executions[w].running

start_workflow_launching_first(h, workflow_id) ==
    /\ handlers[h].pc = "idle"
    /\ IF workflow_id \notin Stored
       THEN /\ Reject(h, "start", None, workflow_id, NoTask, "404")
            /\ UNCHANGED executions
       ELSE /\ Alive(workflow_id) < MaxExec
            /\ executions' = [executions EXCEPT ![workflow_id].scheduled = @ + 1]
            /\ IF workflows_storage[workflow_id].status = "executing"
               THEN Reject(h, "start", None, workflow_id, NoTask,
                           "Workflow is already running")
               ELSE Respond(h, "start", None, workflow_id, NoTask,
                            [NoEvent EXCEPT !.type = "workflow_started",
                                            !.workflow_id = workflow_id],
                            "Workflow execution started")
    /\ UNCHANGED <<Store, now, assign_loop, progress_loop, active_connections, received>>

start_workflow_launching_unknown(h, workflow_id) ==
    /\ handlers[h].pc = "idle"
    /\ IF workflow_id \notin Stored
       THEN /\ Alive(workflow_id) < MaxExec
            /\ executions' = [executions EXCEPT ![workflow_id].scheduled = @ + 1]
            /\ Reject(h, "start", None, workflow_id, NoTask, "404")
       ELSE IF workflows_storage[workflow_id].status = "executing"
       THEN /\ Reject(h, "start", None, workflow_id, NoTask, "Workflow is already running")
            /\ UNCHANGED executions
       ELSE /\ Alive(workflow_id) < MaxExec
            /\ executions' = [executions EXCEPT ![workflow_id].scheduled = @ + 1]
            /\ Respond(h, "start", None, workflow_id, NoTask,
                       [NoEvent EXCEPT !.type = "workflow_started",
                                       !.workflow_id = workflow_id],
                       "Workflow execution started")
    /\ UNCHANGED <<Store, now, assign_loop, progress_loop, active_connections, received>>

\* the handler: 404 for an unknown id (line 208), the early return for a
\* workflow that is EXECUTING (line 213), else create_task and broadcast
start_workflow(h, workflow_id) ==
    /\ handlers[h].pc = "idle"
    /\ IF workflow_id \notin Stored
       THEN /\ Reject(h, "start", None, workflow_id, NoTask, "404")
            /\ UNCHANGED executions
       ELSE IF workflows_storage[workflow_id].status = "executing"
       THEN /\ Reject(h, "start", None, workflow_id, NoTask, "Workflow is already running")
            /\ UNCHANGED executions
       ELSE /\ Alive(workflow_id) < MaxExec
            \* asyncio.create_task: the coroutine is scheduled, not run
            /\ executions' = [executions EXCEPT ![workflow_id].scheduled = @ + 1]
            /\ Respond(h, "start", None, workflow_id, NoTask,
                       [NoEvent EXCEPT !.type = "workflow_started",
                                       !.workflow_id = workflow_id],
                       "Workflow execution started")
    /\ UNCHANGED <<Store, now, assign_loop, progress_loop, active_connections, received>>

\* ------------------------------------------------ execute_workflow_background
\* The event loop runs a scheduled execution: WorkflowExecutor.execute_workflow
\* marks the workflow EXECUTING and suspends in its first step.
execute_workflow_begins(w) ==
    /\ executions[w].scheduled > 0
    /\ executions' = [executions EXCEPT ![w].scheduled = @ - 1, ![w].running = @ + 1]
    /\ workflows_storage' = [workflows_storage EXCEPT ![w].status = "executing"]
    /\ last' = Step("exec_begin", None, w, NoTask, None, NoEvent)
    /\ UNCHANGED <<tasks, current_tasks, next_task_id, serial, now, handlers,
                   assign_loop, progress_loop, active_connections, received>>

\* execute_workflow returns: the Executor has marked the workflow COMPLETED
execute_workflow_returns(w) ==
    /\ executions[w].running > 0
    /\ executions' = [executions EXCEPT ![w].running = @ - 1]
    /\ workflows_storage' = [workflows_storage EXCEPT ![w].status = "completed"]
    /\ last' = Step("exec_return", None, w, NoTask, None, NoEvent)
    /\ UNCHANGED <<tasks, current_tasks, next_task_id, serial, now, handlers,
                   assign_loop, progress_loop, active_connections, received>>

execute_workflow_raises_unhandled(w) ==
    /\ executions[w].running > 0
    /\ executions' = [executions EXCEPT ![w].running = @ - 1]
    /\ handlers' = [h \in Broadcasters |-> IdleHandler]
    /\ last' = Step("exec_raise", None, w, NoTask, None, NoEvent)
    /\ UNCHANGED <<Store, now, assign_loop, progress_loop, active_connections, received>>

execute_workflow_raises_deleting(w) ==
    /\ executions[w].running > 0
    /\ executions' = [executions EXCEPT ![w].running = @ - 1]
    /\ workflows_storage' = [v \in Stored \ {w} |-> workflows_storage[v]]
    /\ last' = Step("exec_raise", None, w, NoTask, None, NoEvent)
    /\ UNCHANGED <<tasks, current_tasks, next_task_id, serial, now, handlers,
                   assign_loop, progress_loop, active_connections, received>>

\* execute_workflow raises: the except clause marks the workflow FAILED
execute_workflow_raises(w) ==
    /\ executions[w].running > 0
    /\ executions' = [executions EXCEPT ![w].running = @ - 1]
    /\ workflows_storage' = [workflows_storage EXCEPT ![w].status = "failed"]
    /\ last' = Step("exec_raise", None, w, NoTask, None, NoEvent)
    /\ UNCHANGED <<tasks, current_tasks, next_task_id, serial, now, handlers,
                   assign_loop, progress_loop, active_connections, received>>

\* ------------------------------------------------ update_task
\* `if request.result:` and `if request.errors:` test truthiness
Truthy(result) == result \notin {None, "empty"}

\* the Task object when TaskStatus(request.status) raises ValueError: the
\* assignment of line 247 does not happen and lines 249-262 are skipped
TaskAfterPayloadThenValueError(task, result, errors) ==
    [task EXCEPT
        !.result = IF Truthy(result) THEN result ELSE @,
        !.errors = IF errors.given THEN @ \o errors.list ELSE @]

TaskAfterValueError(task, result, errors) == task

UpdatedTaskOverwritingErrors(task, status, result, errors) ==
    [task EXCEPT
        !.status = status,
        !.result = IF Truthy(result) THEN result ELSE @,
        !.errors = IF errors.given /\ errors.list # <<>> THEN errors.list ELSE @,
        !.completed_at = IF status = "completed" THEN now ELSE @]

UpdatedTaskPrependingErrors(task, status, result, errors) ==
    [task EXCEPT
        !.status = status,
        !.result = IF Truthy(result) THEN result ELSE @,
        !.errors = IF errors.given /\ errors.list # <<>> THEN errors.list \o @ ELSE @,
        !.completed_at = IF status = "completed" THEN now ELSE @]

UpdatedTaskKeepingCompleted(task, status, result, errors) ==
    [task EXCEPT
        !.status = IF @ = "completed" THEN @ ELSE status,
        !.result = IF Truthy(result) THEN result ELSE @,
        !.errors = IF errors.given /\ errors.list # <<>> THEN @ \o errors.list ELSE @,
        !.completed_at = IF status = "completed" THEN now ELSE @]

\* the Task object after lines 247-256
UpdatedTask(task, status, result, errors) ==
    [task EXCEPT
        !.status = status,
        !.result = IF Truthy(result) THEN result ELSE @,
        !.errors = IF errors.given /\ errors.list # <<>> THEN @ \o errors.list ELSE @,
        !.completed_at = IF status = "completed" THEN now ELSE @]

UpdatedAgentsKeepingTask(ct, workflow, task_id, task) == ct

UpdatedAgentsOnAnyStatus(ct, workflow, task_id, task) ==
    LET aid == task.assigned_agent_id
    IN IF /\ aid # None
          /\ aid \in workflow.agents
          /\ task_id \in ct[aid]
       THEN [ct EXCEPT ![aid] = @ \ {task_id}]
       ELSE ct

\* Agent.current_tasks after lines 255-262, task being the updated object
UpdatedAgents(ct, workflow, task_id, task) ==
    LET aid == task.assigned_agent_id
    IN IF /\ task.status = "completed"
          /\ aid # None
          /\ aid \in workflow.agents
          /\ task_id \in ct[aid]
       THEN [ct EXCEPT ![aid] = @ \ {task_id}]
       ELSE ct

\* the task fields an accepted update leaves, by the update protocol
SerialUpdate(f, status, result, errors) ==
    [status |-> status,
     result |-> IF result \in {"r1", "r2"} THEN result ELSE f.result,
     errors |-> f.errors \o errors.list]

task_updated_with_old_progress(w, task_id, before, after) ==
    [NoEvent EXCEPT
        !.type = "task_updated",
        !.workflow_id = w,
        !.task_id = task_id,
        !.old_status = before[task_id].status,
        !.new_status = after[task_id].status,
        !.progress = progress_percentage(workflows_storage[w].tasks, before)]

task_updated_with_new_status_twice(w, task_id, before, after) ==
    [NoEvent EXCEPT
        !.type = "task_updated",
        !.workflow_id = w,
        !.task_id = task_id,
        !.old_status = after[task_id].status,
        !.new_status = after[task_id].status,
        !.progress = progress_percentage(workflows_storage[w].tasks, after)]

\* the message of lines 265-272, before and after being the Task objects
\* before line 247 and at line 265
task_updated(w, task_id, before, after) ==
    [NoEvent EXCEPT
        !.type = "task_updated",
        !.workflow_id = w,
        !.task_id = task_id,
        !.old_status = before[task_id].status,
        !.new_status = after[task_id].status,
        !.progress = progress_percentage(workflows_storage[w].tasks, after)]

update_task(h, task_id, status, result, errors) ==
    /\ handlers[h].pc = "idle"
    /\ LET w == find_task(task_id)
       IN IF w = None
          THEN /\ Reject(h, "update", status, None, task_id, "404")
               /\ UNCHANGED <<tasks, current_tasks, serial>>
          ELSE IF ParseTaskStatus(status) = "ValueError"
          THEN /\ Reject(h, "update", status, w, task_id, "400 Invalid status: " \o status)
               /\ tasks' = [tasks EXCEPT ![task_id] =
                                 TaskAfterValueError(@, result, errors)]
               /\ UNCHANGED <<current_tasks, serial>>
          ELSE LET task == UpdatedTask(tasks[task_id], ParseTaskStatus(status),
                                       result, errors)
               IN /\ Len(task.errors) <= MaxErrors
                  /\ tasks' = [tasks EXCEPT ![task_id] = task]
                  /\ current_tasks' = UpdatedAgents(current_tasks,
                                          workflows_storage[w], task_id, task)
                  /\ serial' = [serial EXCEPT ![task_id] =
                                    SerialUpdate(@, status, result, errors)]
                  /\ Respond(h, "update", status, w, task_id,
                             task_updated(w, task_id, tasks, tasks'),
                             "Task updated successfully")
    /\ UNCHANGED <<workflows_storage, next_task_id, now, executions, assign_loop, progress_loop,
                   active_connections, received>>

\* ------------------------------------------------ decompose_task
SpliceAfter(ts, task_index, subtasks) ==
    SubSeq(ts, 1, task_index) \o subtasks \o SubSeq(ts, task_index + 2, Len(ts))

\* workflow.tasks[task_index:task_index+1] = subtasks, task_index from 1
Splice(ts, task_index, subtasks) ==
    SubSeq(ts, 1, task_index - 1) \o subtasks \o SubSeq(ts, task_index + 1, Len(ts))

TasksWithoutTaskAfterDecomposerError(ts, task_id) ==
    IF task_id \in Range(ts) THEN Remove(ts, task_id) ELSE ts

\* workflow.tasks when task_decomposer.decompose_task raises: line 299 has
\* raised, lines 302-303 are skipped
TasksAfterDecomposerError(ts, task_id) == ts

TasksWithSubtasksAppendedAfterIndexError(ts, subtasks) == ts \o subtasks

\* workflow.tasks when workflow.tasks.index(task) raises ValueError: line 303
\* is skipped
TasksAfterIndexError(ts, subtasks) == ts

TasksWithDependenciesRewritten(tm, task_id, subtasks) ==
    [t \in DOMAIN tm |->
        [tm[t] EXCEPT !.dependencies =
            IF \E i \in 1..Len(@) : @[i] = task_id
            THEN SelectSeq(@, LAMBDA d : d # task_id) \o subtasks
            ELSE @]]

\* the Task objects after the splice of lines 302-303, which writes
\* workflow.tasks only
TasksAfterSplice(tm, task_id, subtasks) == tm

task_decomposed_counting_tasks(w, task_id, subtasks, ts) ==
    [NoEvent EXCEPT
        !.type = "task_decomposed",
        !.workflow_id = w,
        !.task_id = task_id,
        !.subtasks_count = Len(ts)]

\* the message of lines 305-310: task_id is original_task_id, ts is
\* workflow.tasks after the splice
task_decomposed(w, task_id, subtasks, ts) ==
    [NoEvent EXCEPT
        !.type = "task_decomposed",
        !.workflow_id = w,
        !.task_id = task_id,
        !.subtasks_count = Len(subtasks)]

\* the handler up to `await task_decomposer.decompose_task(task)`
decompose_task_call(h, task_id) ==
    /\ handlers[h].pc = "idle"
    /\ LET w == find_task(task_id)
       IN IF w = None
          THEN Reject(h, "decompose_call", None, None, task_id, "404")
          ELSE /\ handlers' = [handlers EXCEPT ![h] =
                      [IdleHandler EXCEPT !.pc = "decompose", !.op = "decompose",
                                          !.wf = w, !.task = task_id]]
               /\ last' = Step("decompose_call", None, w, task_id, "suspended", NoEvent)
    /\ UNCHANGED <<Store, now, executions, assign_loop, progress_loop, active_connections, received>>

\* TaskDecomposer.decompose_task: n new pending tasks with new ids
decompose(n) == [i \in 1..n |-> next_task_id + i - 1]

\* the handler from the return (or the exception) of the decomposer on
decompose_task_resume(h, n, decomposed) ==
    /\ handlers[h].pc = "decompose"
    /\ LET w == handlers[h].wf
           task_id == handlers[h].task
           ts == workflows_storage[w].tasks
       IN IF ~decomposed
          THEN /\ Reject(h, "decompose", "decomposer raised", w, task_id, "500")
               /\ workflows_storage' = [workflows_storage EXCEPT
                      ![w].tasks = TasksAfterDecomposerError(ts, task_id)]
               /\ UNCHANGED <<next_task_id, tasks>>
          ELSE /\ next_task_id + n - 1 <= NumTaskIds
               /\ next_task_id' = next_task_id + n
               /\ IF task_id \notin Range(ts)
                  THEN \* list.index raises ValueError
                       /\ Reject(h, "decompose", "index raised", w, task_id, "500")
                       /\ workflows_storage' = [workflows_storage EXCEPT
                              ![w].tasks = TasksAfterIndexError(ts, decompose(n))]
                       /\ UNCHANGED tasks
                  ELSE /\ workflows_storage' = [workflows_storage EXCEPT
                              ![w].tasks = Splice(ts, IndexOf(ts, task_id), decompose(n))]
                       /\ tasks' = TasksAfterSplice(tasks, task_id, decompose(n))
                       /\ Respond(h, "decompose", None, w, task_id,
                              task_decomposed(w, task_id, decompose(n),
                                              workflows_storage'[w].tasks),
                              "Task decomposed")
    /\ UNCHANGED <<current_tasks, serial, now, executions, assign_loop, progress_loop,
                   active_connections, received>>

\* ------------------------------------------------ background_workflow_processor
Order(w) == IF w = "w1" THEN 1 ELSE IF w = "w2" THEN 2 ELSE 3

Sleeping == [pc |-> "sleep", wf |-> None, size |-> 0]

\* the for loop over workflows_storage.values() after position k: skips the
\* workflows that are not EXECUTING and suspends in assign_tasks of the next
\* one that is, or ends and sleeps
LoopFrom(k, size) ==
    LET rest == {w \in Stored : Order(w) > k /\
                                workflows_storage[w].status = "executing"}
    IN IF rest = {} THEN Sleeping
       ELSE [pc |-> "assign",
             wf |-> CHOOSE w \in rest : \A v \in rest : Order(w) <= Order(v),
             size |-> size]

assign_loop_wakes ==
    /\ assign_loop.pc = "sleep"
    /\ assign_loop' = LoopFrom(0, Cardinality(Stored))
    /\ last' = Step("assign_wake", None, None, NoTask, None, NoEvent)
    /\ UNCHANGED <<Store, now, handlers, executions, active_connections, received,
                   progress_loop>>

\* AgentManager.assign_tasks returns: it has given one ready task of the
\* workflow to one of its agents (task_id, agent), or none (task_id = NoTask);
\* the loop then asks the dict iterator for the next workflow, which raises
\* RuntimeError when the dict changed size
assign_tasks_returns(task_id, agent) ==
    /\ assign_loop.pc = "assign"
    /\ LET w == assign_loop.wf
       IN /\ IF task_id = NoTask
             THEN UNCHANGED <<tasks, current_tasks, serial>>
             ELSE /\ task_id \in Range(workflows_storage[w].tasks)
                  /\ tasks[task_id].status = "pending"
                  /\ agent \in workflows_storage[w].agents
                  /\ tasks' = [tasks EXCEPT ![task_id].status = "in_progress",
                                            ![task_id].assigned_agent_id = agent]
                  /\ current_tasks' = [current_tasks EXCEPT ![agent] = @ \cup {task_id}]
                  /\ serial' = [serial EXCEPT ![task_id].status = "in_progress"]
          /\ assign_loop' = IF Cardinality(Stored) # assign_loop.size
                            THEN Sleeping
                            ELSE LoopFrom(Order(w), assign_loop.size)
          /\ last' = Step("assign", None, w, task_id,
                          IF Cardinality(Stored) # assign_loop.size
                          THEN "RuntimeError" ELSE None, NoEvent)
    /\ UNCHANGED <<workflows_storage, next_task_id, now, handlers, executions,
                   active_connections, received, progress_loop>>

assign_tasks_raises_unhandled ==
    /\ assign_loop.pc = "assign"
    /\ assign_loop' = [Sleeping EXCEPT !.pc = "terminated"]
    /\ last' = Step("assign_raise", None, assign_loop.wf, NoTask, None, NoEvent)
    /\ UNCHANGED <<Store, now, handlers, executions, active_connections, received,
                   progress_loop>>

\* assign_tasks raises: the except clause logs and sleeps
assign_tasks_raises ==
    /\ assign_loop.pc = "assign"
    /\ assign_loop' = Sleeping
    /\ last' = Step("assign_raise", None, assign_loop.wf, NoTask, None, NoEvent)
    /\ UNCHANGED <<Store, now, handlers, executions, active_connections, received,
                   progress_loop>>

\* ------------------------------------------------ progress_tracker
\* asleep; the workflows that were EXECUTING when the last tick began and the
\* events that tick handed to broadcast
ProgressSleeping(executing, reported) ==
    [pc |-> "sleep", wf |-> None, size |-> 0, executing |-> executing,
     reported |-> reported]

\* Workflow.task_distribution: the number of tasks of the sequence per status
task_distribution(ts, tm) ==
    [st \in TaskStatus |-> Cardinality({i \in 1..Len(ts) : tm[ts[i]].status = st})]

\* the message of lines 403-411 for workflow w
progress_update(w) ==
    [NoEvent EXCEPT
        !.type = "progress_update",
        !.workflow_id = w,
        !.progress = progress_percentage(workflows_storage[w].tasks, tasks),
        !.task_distribution = task_distribution(workflows_storage[w].tasks, tasks)]

\* the for loop over workflows_storage.values() after position k, conns being
\* the connections: skips the workflows that are not EXECUTING and broadcasts
\* progress_update for each one that is; a broadcast to no connection returns
\* without suspending, otherwise the loop is suspended in its first send
RECURSIVE ProgressFrom(_, _, _, _, _)
ProgressFrom(k, size, executing, reported, conns) ==
    LET rest == {w \in Stored : Order(w) > k /\
                                workflows_storage[w].status = "executing"}
    IN IF rest = {}
       THEN [loop |-> ProgressSleeping(executing, reported), handler |-> IdleHandler]
       ELSE LET w == CHOOSE x \in rest : \A v \in rest : Order(x) <= Order(v)
                e == progress_update(w)
            IN IF conns = <<>>
               THEN ProgressFrom(Order(w), size, executing, Append(reported, e), conns)
               ELSE [loop |-> [pc |-> "send", wf |-> w, size |-> size,
                               executing |-> executing,
                               reported |-> Append(reported, e)],
                     handler |-> [IdleHandler EXCEPT
                                     !.pc = "send", !.op = "progress", !.wf = w,
                                     !.event = e, !.idx = 1, !.conn = conns[1],
                                     !.initial = Range(conns)]]

\* asyncio.sleep(5) returns: a tick begins
progress_wakes ==
    /\ progress_loop.pc = "sleep"
    /\ LET P == ProgressFrom(0, Cardinality(Stored),
                             {w \in Stored : workflows_storage[w].status = "executing"},
                             <<>>, active_connections)
       IN /\ progress_loop' = P.loop
          /\ handlers' = [handlers EXCEPT !["progress_tracker"] = P.handler]
    /\ last' = Step("progress_wake", None, None, NoTask, None, NoEvent)
    /\ UNCHANGED <<Store, now, executions, assign_loop, active_connections, received>>

\* broadcast resumes in progress_tracker; when it returns the loop asks the
\* dict iterator for the next workflow, which raises RuntimeError when the dict
\* changed size: the except clause logs and sleeps
progress_broadcast_resume(ok) ==
    /\ progress_loop.pc = "send"
    /\ LET H == handlers["progress_tracker"]
           B == BroadcastStep(H, ok)
           P == ProgressFrom(Order(progress_loop.wf), progress_loop.size,
                             progress_loop.executing, progress_loop.reported, B.conns)
       IN /\ active_connections' = B.conns
          /\ received' = IF ok THEN send_json(received, H.conn, H.event) ELSE received
          /\ IF ~B.done
             THEN /\ handlers' = [handlers EXCEPT !["progress_tracker"] = B.handler]
                  /\ last' = Step("send", None, H.wf, NoTask, "suspended", NoEvent)
                  /\ UNCHANGED progress_loop
             ELSE IF Cardinality(Stored) # progress_loop.size
             THEN /\ handlers' = [handlers EXCEPT !["progress_tracker"] = IdleHandler]
                  /\ last' = [Returned(B.handler) EXCEPT !.resp = "RuntimeError"]
                  /\ progress_loop' = ProgressSleeping(progress_loop.executing,
                                                       progress_loop.reported)
             ELSE /\ handlers' = [handlers EXCEPT !["progress_tracker"] = P.handler]
                  /\ last' = Returned(B.handler)
                  /\ progress_loop' = P.loop
    /\ UNCHANGED <<Store, now, executions, assign_loop>>

\* ------------------------------------------------ the clock
tick ==
    /\ now < MaxClock
    /\ now' = now + 1
    /\ last' = Step("tick", None, None, NoTask, None, NoEvent)
    /\ UNCHANGED <<Store, handlers, executions, assign_loop, progress_loop, active_connections, received>>

\* ------------------------------------------------ specification
Init ==
    /\ workflows_storage = [w \in {} |-> 0]
    /\ tasks = [t \in TaskIds |-> CreatedTask(t)]
    /\ current_tasks = [a \in AgentIds |-> {}]
    /\ next_task_id = 1
    /\ now = 1
    /\ active_connections = <<>>
    /\ handlers = [h \in Broadcasters |-> IdleHandler]
    /\ executions = [w \in WorkflowIds |-> [scheduled |-> 0, running |-> 0]]
    /\ assign_loop = Sleeping
    /\ progress_loop = ProgressSleeping({}, <<>>)
    /\ received = [c \in {} |-> 0]
    /\ serial = [t \in TaskIds |-> [status |-> "pending", result |-> None,
                                    errors |-> <<>>]]
    /\ last = Step("init", None, None, NoTask, None, NoEvent)

\* the lifecycle of workflows, with a live subscriber
NextLifecycle ==
    \/ \E generated \in BOOLEAN :
          Cardinality(Stored) < 2 /\ create_workflow("h1", 1, generated)
    \/ \E h \in HandlerIds, w \in WorkflowIds : start_workflow(h, w)
    \/ \E w \in WorkflowIds : execute_workflow_begins(w)
    \/ \E w \in WorkflowIds : execute_workflow_returns(w)
    \/ \E w \in WorkflowIds : execute_workflow_raises(w)
    \/ connect("c1", FALSE)
    \/ websocket_disconnect("c1")
    \/ \E h \in HandlerIds, ok \in BOOLEAN : broadcast_resume(h, ok)
    \/ assign_loop_wakes
    \/ assign_tasks_returns(NoTask, None)
    \/ assign_tasks_raises

SpecLifecycle == Init /\ [][NextLifecycle]_vars

\* updates of the task of one workflow, with assignment to its agents
NextUpdate ==
    \/ \E generated \in BOOLEAN : Stored = {} /\ create_workflow("h1", 1, generated)
    \/ \E w \in WorkflowIds : Alive(w) = 0 /\ start_workflow("h1", w)
    \/ \E w \in WorkflowIds : execute_workflow_begins(w)
    \/ \E t \in {1, NumTaskIds}, st \in {"completed", "failed", "pending", "done"},
          r \in {None, "empty", "r1"},
          e \in {x \in ErrorInputs : x.list \in {<<>>, <<"e1">>}} :
          update_task("h1", t, st, r, e)
    \/ assign_loop_wakes
    \/ \E t \in {NoTask, 1}, a \in {"a1", "a2"} : assign_tasks_returns(t, a)

SpecUpdate == Init /\ [][NextUpdate]_vars

\* update handlers that overlap: one is suspended in its broadcast while
\* another one runs
NextConcurrent ==
    \/ Stored = {} /\ create_workflow("h1", 2, TRUE)
    \/ \E h \in HandlerIds, t \in {1, 2}, st \in {"completed"},
          r \in {None, "r1"},
          e \in {x \in ErrorInputs : x.list \in {<<>>, <<"e1">>}} :
          update_task(h, t, st, r, e)
    \/ connect("c1", FALSE)
    \/ \E h \in HandlerIds, ok \in BOOLEAN : broadcast_resume(h, ok)

SpecConcurrent == Init /\ [][NextConcurrent]_vars

\* decompositions of the tasks of the workflows, overlapping
NextDecompose ==
    \/ \E n \in 0..MaxGenTasks, generated \in BOOLEAN :
          Cardinality(Stored) < 2 /\ create_workflow("h1", n, generated)
    \/ \E h \in HandlerIds, t \in TaskIds : decompose_task_call(h, t)
    \/ \E h \in HandlerIds, n \in 0..MaxSubtasks, decomposed \in BOOLEAN :
          decompose_task_resume(h, n, decomposed)

SpecDecompose == Init /\ [][NextDecompose]_vars

\* broadcasts that overlap each other and the arrival and departure of
\* subscribers
NextBroadcast ==
    \/ \E h \in HandlerIds : Cardinality(Stored) < 2 /\ create_workflow(h, 0, TRUE)
    \/ \E c \in Connections : connect(c, FALSE)
    \/ \E c \in Connections : websocket_disconnect(c)
    \/ \E h \in HandlerIds, ok \in BOOLEAN : broadcast_resume(h, ok)

SpecBroadcast == Init /\ [][NextBroadcast]_vars

\* one caller whose requests follow each other, so that its broadcasts do,
\* and subscribers whose clients record what they are sent
NextSequential ==
    \/ create_workflow("h1", 0, TRUE)
    \/ \E c \in {"c1", "c2"} : connect(c, TRUE)
    \/ \E c \in {"c1", "c2"} : websocket_disconnect(c)
    \/ \E h \in HandlerIds, ok \in BOOLEAN : broadcast_resume(h, ok)

SpecSequential == Init /\ [][NextSequential]_vars

\* broadcasts to subscribers of which c1 is slow: the event loop resumes a
\* broadcast whenever the send_json it awaits completes, and every send_json
\* completes (returns or raises) except, possibly, one to c1
NextSlowSubscriber ==
    \/ \E h \in HandlerIds : create_workflow(h, 0, TRUE)
    \/ \E c \in {"c1", "c2"} : connect(c, FALSE)
    \/ \E h \in HandlerIds, ok \in BOOLEAN : broadcast_resume(h, ok)

SpecSlowSubscriber ==
    /\ Init
    /\ [][NextSlowSubscriber]_vars
    /\ \A h \in HandlerIds :
          WF_vars(\E ok \in BOOLEAN : handlers[h].conn # "c1" /\ broadcast_resume(h, ok))

\* the two background loops at work while workflows are created and started
\* and a subscriber listens
NextLoops ==
    \/ create_workflow("h1", 0, TRUE)
    \/ \E w \in WorkflowIds : Alive(w) = 0 /\ start_workflow("h1", w)
    \/ \E w \in WorkflowIds : execute_workflow_begins(w)
    \/ connect("c1", FALSE)
    \/ \E ok \in BOOLEAN : broadcast_resume("h1", ok)
    \/ assign_loop_wakes
    \/ assign_tasks_returns(NoTask, None)
    \/ assign_tasks_raises
    \/ progress_wakes
    \/ \E ok \in BOOLEAN : progress_broadcast_resume(ok)

SpecLoops == Init /\ [][NextLoops]_vars

\* the two loops with one workflow EXECUTING while a second one is created
NextLoopsFair ==
    \/ Cardinality(Stored) < 2 /\ create_workflow("h1", 0, TRUE)
    \/ Alive("w1") = 0 /\ start_workflow("h1", "w1")
    \/ execute_workflow_begins("w1")
    \/ connect("c1", FALSE)
    \/ \E ok \in BOOLEAN : broadcast_resume("h1", ok)
    \/ assign_loop_wakes
    \/ assign_tasks_returns(NoTask, None)
    \/ assign_tasks_raises
    \/ progress_wakes
    \/ \E ok \in BOOLEAN : progress_broadcast_resume(ok)

\* the event loop resumes a coroutine whose await has completed: the sleeps
\* end, and assign_tasks and send_json return or raise
SpecLoopsFair ==
    /\ Init
    /\ [][NextLoopsFair]_vars
    /\ WF_vars(assign_loop_wakes)
    /\ WF_vars(assign_tasks_returns(NoTask, None) \/ assign_tasks_raises)
    /\ WF_vars(progress_wakes)
    /\ WF_vars(\E ok \in BOOLEAN : progress_broadcast_resume(ok))

\* the tasks of one workflow updated and decomposed by one client, with the
\* progress loop reporting
NextTasks ==
    \/ \E n \in {0, 3} : Stored = {} /\ create_workflow("h1", n, TRUE)
    \/ Alive("w1") = 0 /\ start_workflow("h1", "w1")
    \/ execute_workflow_begins("w1")
    \/ \E t \in {1, 2, 3, NumTaskIds}, st \in {"completed", "pending"} :
          update_task("h1", t, st, None, [given |-> FALSE, list |-> <<>>])
    \/ \E t \in {1, NumTaskIds} : decompose_task_call("h1", t)
    \/ \E n \in {0, MaxSubtasks} : decompose_task_resume("h1", n, TRUE)
    \/ progress_wakes

SpecTasks == Init /\ [][NextTasks]_vars

\* creations, succeeding and failing, with a subscriber
NextCreate ==
    \/ \E h \in HandlerIds, n \in {0, 1}, generated \in BOOLEAN :
          create_workflow(h, n, generated)
    \/ connect("c1", FALSE)
    \/ \E h \in HandlerIds, ok \in BOOLEAN : broadcast_resume(h, ok)

SpecCreate == Init /\ [][NextCreate]_vars

\* updates of the tasks of a workflow while they are being decomposed
NextInterleave ==
    \/ Stored = {} /\ create_workflow("h1", 2, TRUE)
    \/ \E h \in HandlerIds, t \in {1, 2} : decompose_task_call(h, t)
    \/ \E h \in HandlerIds, n \in 0..MaxSubtasks, decomposed \in BOOLEAN :
          decompose_task_resume(h, n, decomposed)
    \/ \E h \in HandlerIds, t \in {1, 2}, st \in {"completed", "failed"} :
          update_task(h, t, st, "r1", [given |-> FALSE, list |-> <<>>])

SpecInterleave == Init /\ [][NextInterleave]_vars

\* updates of one task, to every status and with errors, as time passes
NextStamps ==
    \/ Stored = {} /\ create_workflow("h1", 1, TRUE)
    \/ \E st \in TaskStatus,
          e \in {x \in ErrorInputs : x.list \in {<<>>, <<"e1">>, <<"e2">>}} :
          update_task("h1", 1, st, None, e)
    \/ tick

SpecStamps == Init /\ [][NextStamps]_vars

\* every operation on the store: requests, execution outcomes, loop ticks
NextStore ==
    \/ \E generated \in BOOLEAN :
          Cardinality(Stored) < 2 /\ create_workflow("h1", 1, generated)
    \/ Alive("w1") = 0 /\ start_workflow("h1", "w1")
    \/ execute_workflow_begins("w1")
    \/ execute_workflow_returns("w1")
    \/ execute_workflow_raises("w1")
    \/ update_task("h1", 1, "completed", None, [given |-> FALSE, list |-> <<>>])
    \/ decompose_task_call("h1", 1)
    \/ \E decomposed \in BOOLEAN : decompose_task_resume("h1", 1, decomposed)
    \/ assign_loop_wakes
    \/ \E t \in {NoTask, 1} : assign_tasks_returns(t, "a1")
    \/ assign_tasks_raises
    \/ progress_wakes

SpecStore == Init /\ [][NextStore]_vars

\* requests of every kind, accepted and rejected, with a subscriber
NextRequests ==
    \/ \E generated \in BOOLEAN : Stored = {} /\ create_workflow("h1", 2, generated)
    \/ \E w \in {"w1", "w2"} : Alive(w) = 0 /\ start_workflow("h1", w)
    \/ execute_workflow_begins("w1")
    \/ \E t \in {1, NumTaskIds}, st \in {"completed", "done"} :
          update_task("h2", t, st, None, [given |-> FALSE, list |-> <<>>])
    \/ \E h \in HandlerIds, t \in {1, NumTaskIds} : decompose_task_call(h, t)
    \/ \E h \in HandlerIds, n \in {0, MaxSubtasks}, decomposed \in BOOLEAN :
          decompose_task_resume(h, n, decomposed)
    \/ connect("c1", FALSE)
    \/ \E h \in HandlerIds, ok \in BOOLEAN : broadcast_resume(h, ok)

SpecRequests == Init /\ [][NextRequests]_vars

\* creations and decompositions with a subscriber whose client records the
\* events it is sent
NextNotify ==
    \/ \E h \in HandlerIds : Stored = {} /\ create_workflow(h, 2, TRUE)
    \/ \E h \in HandlerIds, t \in {1, 2} : decompose_task_call(h, t)
    \/ \E h \in HandlerIds, n \in {0, 1}, decomposed \in BOOLEAN :
          decompose_task_resume(h, n, decomposed)
    \/ connect("c1", TRUE)
    \/ websocket_disconnect("c1")
    \/ \E h \in HandlerIds, ok \in BOOLEAN : broadcast_resume(h, ok)

SpecNotify == Init /\ [][NextNotify]_vars

\* two updates of task 1 by two clients, U1 (PENDING -> IN_PROGRESS) and then
\* U2 (IN_PROGRESS -> COMPLETED), with subscribers whose clients record the
\* events they are sent
NextOrder ==
    \/ Stored = {} /\ active_connections = <<>> /\ create_workflow("h1", 1, TRUE)
    \/ /\ tasks[1].status = "pending"
       /\ update_task("h1", 1, "in_progress", None, [given |-> FALSE, list |-> <<>>])
    \/ /\ tasks[1].status = "in_progress"
       /\ update_task("h2", 1, "completed", None, [given |-> FALSE, list |-> <<>>])
    \/ \E c \in {"c1", "c2"} : connect(c, TRUE)
    \/ \E h \in HandlerIds, ok \in BOOLEAN : broadcast_resume(h, ok)

SpecOrder == Init /\ [][NextOrder]_vars

\* two workflows side by side: the tasks of both are assigned, updated and
\* decomposed
NextCross ==
    \/ Cardinality(Stored) < 2 /\ create_workflow("h1", 2, TRUE)
    \/ \E w \in {"w1", "w2"} : Alive(w) = 0 /\ start_workflow("h1", w)
    \/ \E w \in {"w1", "w2"} : execute_workflow_begins(w)
    \/ \E t \in {1, 3}, st \in {"completed", "failed"} :
          update_task("h1", t, st, "r1", [given |-> FALSE, list |-> <<>>])
    \/ \E t \in {2, 4} : decompose_task_call("h2", t)
    \/ \E n \in {0, 1}, decomposed \in BOOLEAN : decompose_task_resume("h2", n, decomposed)
    \/ assign_loop_wakes
    \/ \E t \in {NoTask, 1, 3}, a \in {"a1", "a3"} : assign_tasks_returns(t, a)

SpecCross == Init /\ [][NextCross]_vars

Next ==
    \/ tick
    \/ NextCross
    \/ NextOrder
    \/ NextNotify
    \/ NextRequests
    \/ NextStore
    \/ NextStamps
    \/ NextInterleave
    \/ NextCreate
    \/ NextTasks
    \/ NextLoops
    \/ NextLoopsFair
    \/ NextSlowSubscriber
    \/ NextSequential
    \/ NextBroadcast
    \/ NextLifecycle
    \/ NextUpdate
    \/ NextConcurrent
    \/ NextDecompose

Spec == Init /\ [][Next]_vars

\* ------------------------------------------------ claims
StartedResponse == "Workflow execution started"

\* C1: an update_task whose status string is not a TaskStatus value answers
\* 400 naming the string, leaves every task (status, result, errors,
\* completed_at), every agent's current_tasks and the store as they were,
\* and hands no event to broadcast.
C1_InvalidStatusRejected ==
    [][(/\ last'.op = "update"
        /\ last'.arg \notin TaskStatus
        /\ find_task(last'.task) # None)
       => /\ last'.resp = "400 Invalid status: " \o last'.arg
          /\ last'.event = NoEvent
          /\ tasks' = tasks
          /\ current_tasks' = current_tasks
          /\ workflows_storage' = workflows_storage
          /\ handlers' = handlers]_vars

C1_Witness ==
    /\ last.op = "update"
    /\ last.arg = "done"
    /\ last.resp = "400 Invalid status: done"
    /\ tasks[last.task].result # None
    /\ tasks[last.task].errors # <<>>
    /\ \E a \in AgentIds : last.task \in current_tasks[a]

\* C2: the status, result and errors of every stored task are those left by
\* applying the accepted updates one after another in the order of their
\* arrival, also while update handlers are suspended in their broadcasts.
C2_NoLostUpdate ==
    \A w \in Stored :
        \A i \in 1..Len(workflows_storage[w].tasks) :
            LET t == workflows_storage[w].tasks[i]
            IN /\ tasks[t].status = serial[t].status
               /\ tasks[t].result = serial[t].result
               /\ tasks[t].errors = serial[t].errors

C2_Witness ==
    /\ handlers["h1"].pc = "send" /\ handlers["h1"].op = "update"
    /\ handlers["h2"].pc = "send" /\ handlers["h2"].op = "update"
    /\ handlers["h1"].task # handlers["h2"].task
    /\ \A t \in {1, 2} : tasks[t].errors # <<>> /\ tasks[t].result = "r1"

\* C3: at most one detached execution of a workflow is alive at a time.
C3_NeverDoubleStart == \A w \in WorkflowIds : Alive(w) <= 1

\* C4: start_workflow on a workflow that is EXECUTING answers "Workflow is
\* already running", launches nothing, hands no event to broadcast and
\* changes nothing of the store, the handlers or the connections.
C4_StartWhileExecutingIsNoOp ==
    [][(/\ last'.op = "start"
        /\ last'.wf \in Stored
        /\ workflows_storage[last'.wf].status = "executing")
       => /\ last'.resp = "Workflow is already running"
          /\ last'.event = NoEvent
          /\ UNCHANGED <<workflows_storage, tasks, current_tasks, next_task_id,
                         executions, handlers, active_connections, received,
                         assign_loop, progress_loop>>]_vars

C4_Witness ==
    /\ last.op = "start"
    /\ last.resp = "Workflow is already running"
    /\ Alive(last.wf) = 1

\* C5: when start_workflow has returned "Workflow execution started" the
\* stored workflow is EXECUTING.
C5_StartedImpliesExecuting ==
    (last.resp = StartedResponse) =>
        workflows_storage[last.wf].status = "executing"

\* C6: a workflow's status only moves PENDING -> EXECUTING -> COMPLETED or
\* FAILED, and no execution is launched for a COMPLETED or FAILED workflow.
C6_LifecycleOrder ==
    [][\A w \in Stored :
          LET a == workflows_storage[w].status
              b == workflows_storage'[w].status
          IN /\ a # b => <<a, b>> \in {<<"pending", "executing">>,
                                        <<"executing", "completed">>,
                                        <<"executing", "failed">>}
             /\ a \in {"completed", "failed"} =>
                    executions'[w].scheduled <= executions[w].scheduled]_vars

C8_AgentTasksInProgress ==
    \A a \in AgentIds :
        \A t \in current_tasks[a] :
            /\ tasks[t].status = "in_progress"
            /\ find_task(t) # None
            /\ \A b \in AgentIds \ {a} : t \notin current_tasks[b]

\* C9: an update_task to COMPLETED of a task with an assigned agent succeeds
\* and leaves the task id out of that agent's current_tasks; no other agent's
\* current_tasks changes, and when the id was already absent (the completion
\* is applied again) no current_tasks changes at all.
C9_CompletionReleasesAgent ==
    [][(/\ last'.op = "update"
        /\ last'.arg = "completed"
        /\ find_task(last'.task) # None)
       => LET t == last'.task
              a == tasks[t].assigned_agent_id
          IN /\ last'.resp = "Task updated successfully"
             /\ a = None => current_tasks' = current_tasks
             /\ a # None =>
                  /\ t \notin current_tasks'[a]
                  /\ \A b \in AgentIds \ {a} : current_tasks'[b] = current_tasks[b]
                  /\ t \notin current_tasks[a] => current_tasks' = current_tasks]_vars

C9_Witness ==
    /\ last.op = "update"
    /\ last.event.old_status = "completed"
    /\ last.event.new_status = "completed"
    /\ tasks[last.task].assigned_agent_id # None
    /\ last.resp = "Task updated successfully"

\* C10: a decompose_task of task T at index i with subtasks S1..Sn leaves
\* tasks[1..i-1] ++ [S1..Sn] ++ tasks[i+1..]: T is gone, the subtasks stand in
\* the Decomposer's order from index i on, the other tasks keep their order,
\* and the length changes by n - 1.
C10_SpliceInPlace ==
    [][(last'.op = "decompose" /\ last'.event.type = "task_decomposed")
       => LET w == last'.wf
              T == last'.task
              old == workflows_storage[w].tasks
              new == workflows_storage'[w].tasks
              n == last'.event.subtasks_count
          IN \E i \in 1..Len(old) :
                /\ old[i] = T
                /\ T \notin Range(new)
                /\ Len(new) = Len(old) + n - 1
                /\ n = next_task_id' - next_task_id
                /\ \A j \in 1..(i - 1) : new[j] = old[j]
                /\ \A k \in 1..n : new[i + k - 1] = next_task_id + k - 1
                /\ \A j \in (i + 1)..Len(old) : new[j + n - 1] = old[j]]_vars

C10_Witness ==
    /\ last.op = "decompose"
    /\ last.event.type = "task_decomposed"
    /\ last.event.subtasks_count = 2
    /\ last.task = 2
    /\ workflows_storage[last.wf].tasks = <<1, 4, 5, 3>>

\* C11: decompose_task is all-or-nothing: when the Decomposer raises, the
\* caller gets a server-side error (500), every workflow's task sequence, every
\* task and every agent is what it was before the call, and no event is handed
\* to broadcast.
C11_DecomposeAllOrNothing ==
    [][(last'.op = "decompose" /\ last'.arg = "decomposer raised") =>
          /\ last'.resp = "500"
          /\ last'.event = NoEvent
          /\ workflows_storage' = workflows_storage
          /\ tasks' = tasks
          /\ current_tasks' = current_tasks]_vars

\* the Decomposer has raised for a task that is in its workflow's sequence
C11_Witness ==
    /\ last.op = "decompose"
    /\ last.arg = "decomposer raised"
    /\ last.resp = "500"
    /\ last.task \in Range(workflows_storage[last.wf].tasks)

C13_RegisteredConnectionsReceive ==
    last.op = "return" =>
        \A c \in (last.initial \cap Range(active_connections)) \ last.failed :
            c \in last.delivered

\* C14: the events one caller broadcasts one after the other (here
\* workflow_created of w1, then of w2, then of w3) reach every subscriber that
\* is still connected in the order in which they were broadcast: no event is
\* recorded after one that was broadcast later, and none twice.
C14_DeliveredInBroadcastOrder ==
    \A c \in Range(active_connections) :
        \A i, j \in 1..Len(received[c].events) :
            i < j => Order(received[c].events[i].workflow_id)
                       < Order(received[c].events[j].workflow_id)

\* a subscriber that is still connected has been sent all three events
C14_Witness ==
    \E c \in Range(active_connections) :
        /\ Len(received[c].events) = 3
        /\ handlers["h1"].pc = "idle"

\* C15: a slow subscriber never blocks the broadcaster: every broadcast that
\* is suspended in a send eventually returns to its caller, also when the
\* delivery to one subscriber never completes.
C15_BroadcastReturns ==
    \A h \in HandlerIds : (handlers[h].pc = "send") ~> (handlers[h].pc = "idle")

\* C16: a fault of assign_tasks for one EXECUTING workflow does not affect the
\* others: when assign_tasks raises for a workflow and a workflow later in the
\* store is EXECUTING, the loop goes on, in the same tick, to assign_tasks of
\* such a workflow.
C16_AssignFaultIsolated ==
    [][last'.op = "assign_raise" =>
          ((\E v \in Stored : /\ Order(v) > Order(last'.wf)
                               /\ workflows_storage[v].status = "executing")
             => /\ assign_loop'.pc = "assign"
                /\ Order(assign_loop'.wf) > Order(last'.wf))]_vars

C18_EveryExecutingReported ==
    progress_loop.pc = "sleep" =>
        \A w \in progress_loop.executing :
            workflows_storage[w].status = "executing" =>
                Cardinality({i \in 1..Len(progress_loop.reported) :
                                progress_loop.reported[i].workflow_id = w}) = 1

\* C19: for every workflow progress_percentage is the share of its tasks that
\* are COMPLETED, times 100 (here in hundredths of a percent, rounded down):
\* it lies in [0, 100], is 0 for a workflow without tasks, and it is the value
\* that task_updated and progress_update carry, after any updates and
\* decompositions.
C19_ProgressPercentage ==
    LET total(w) == Len(workflows_storage[w].tasks)
        done(w) == Cardinality({i \in 1..total(w) :
                       tasks[workflows_storage[w].tasks[i]].status = "completed"})
        share(w, p) == /\ 0 <= p /\ p <= 10000
                       /\ total(w) = 0 => p = 0
                       /\ p * total(w) <= done(w) * 10000
                       /\ total(w) > 0 => done(w) * 10000 < (p + 1) * total(w)
    IN /\ \A w \in Stored :
             share(w, progress_percentage(workflows_storage[w].tasks, tasks))
       /\ (last.op = "update" /\ last.event.type = "task_updated") =>
             share(last.wf, last.event.progress)
       /\ last.op = "progress_wake" =>
             \A i \in 1..Len(progress_loop.reported) :
                 share(progress_loop.reported[i].workflow_id,
                       progress_loop.reported[i].progress)

\* one of three tasks has been completed: task_updated carries one third
C19_Witness ==
    /\ last.op = "update"
    /\ last.event.type = "task_updated"
    /\ last.event.old_status = "pending"
    /\ last.event.new_status = "completed"
    /\ Len(workflows_storage[last.wf].tasks) = 3
    /\ last.event.progress = 3333

\* C20: update_task and decompose_task with a task id that is in no
\* workflow's task sequence, the id of a task spliced out earlier included,
\* answer 404: no event is broadcast, the Decomposer is not called and no
\* workflow, task or agent changes.
C20_UnknownTaskNotFound ==
    [][(/\ last'.op \in {"update", "decompose_call"}
        /\ ~ \E w \in Stored : last'.task \in Range(workflows_storage[w].tasks)) =>
          /\ last'.resp = "404"
          /\ last'.event = NoEvent
          /\ \A h \in HandlerIds : handlers'[h].pc # "decompose"
          /\ handlers' = handlers
          /\ workflows_storage' = workflows_storage
          /\ tasks' = tasks
          /\ current_tasks' = current_tasks]_vars

\* a request for a task that a decomposition has spliced out was answered 404
C20_Witness ==
    /\ last.op \in {"update", "decompose_call"}
    /\ last.resp = "404"
    /\ last.task < next_task_id
    /\ Stored # {}

\* C21: a create_workflow whose Generator call raises answers 500, leaves the
\* store as it was and hands no event to broadcast; one whose Generator call
\* returns stores the new workflow, and nothing else, under its id and hands
\* one workflow_created event with that id to broadcast.
C21_CreateStoresOrFails ==
    [][last'.op = "create" =>
          IF last'.arg = "generator raised"
          THEN /\ last'.resp = "500"
               /\ last'.event = NoEvent
               /\ UNCHANGED <<workflows_storage, tasks, current_tasks, next_task_id>>
          ELSE /\ last'.resp \in {"success", "suspended"}
               /\ last'.wf \notin Stored
               /\ DOMAIN workflows_storage' = Stored \cup {last'.wf}
               /\ \A w \in Stored : workflows_storage'[w] = workflows_storage[w]
               /\ workflows_storage'[last'.wf].status = "pending"
               /\ last'.event = [NoEvent EXCEPT !.type = "workflow_created",
                                                !.workflow_id = last'.wf]]_vars

\* the Generator has raised while a workflow was stored and a subscriber
\* registered
C21_Witness ==
    /\ last.op = "create"
    /\ last.arg = "generator raised"
    /\ Stored # {}
    /\ active_connections # <<>>

\* C22: what update_task did to a task is not visible to another operation
\* before its task_updated broadcast has completed: a second update_task of
\* the same task that runs while the first one is suspended in its broadcast
\* finds, as old status, the status the task had before the first update.
C22_UpdateInvisibleDuringBroadcast ==
    [][\A h \in HandlerIds :
          (/\ handlers[h].pc = "send"
           /\ handlers[h].op = "update"
           /\ last'.op = "update"
           /\ last'.task = handlers[h].task
           /\ last'.event.type = "task_updated") =>
             last'.event.old_status = handlers[h].event.old_status]_vars

\* C23: operations on the same task do not interleave: while a decompose_task
\* that has resolved task T is suspended in the Decomposer, before it splices
\* T out, no update_task of T takes effect.
C23_NoUpdateDuringDecomposition ==
    [][\A h \in HandlerIds :
          (/\ handlers[h].pc = "decompose"
           /\ last'.op = "update"
           /\ last'.task = handlers[h].task) =>
             /\ tasks' = tasks
             /\ last'.event = NoEvent]_vars

\* C24: completed_at is set exactly once: once a task's completed_at has been
\* stamped, no later step changes it.
C24_CompletedAtSetOnce ==
    [][\A t \in TaskIds :
          tasks[t].completed_at # 0 =>
              tasks'[t].completed_at = tasks[t].completed_at]_vars

\* C25: every successful update_task hands broadcast one task_updated event
\* with the ids of the task and of its workflow, the status the task had just
\* before this update as old_status, the requested status as new_status, and
\* the workflow's progress_percentage as it is after the update.
C25_TaskUpdatedEvent ==
    [][(/\ last'.op = "update"
        /\ last'.arg \in TaskStatus
        /\ find_task(last'.task) # None) =>
          LET t == last'.task
              w == find_task(t)
              ts == workflows_storage'[w].tasks
              done == Cardinality({i \in 1..Len(ts) : tasks'[ts[i]].status = "completed"})
          IN last'.event = [NoEvent EXCEPT
                               !.type = "task_updated",
                               !.workflow_id = w,
                               !.task_id = t,
                               !.old_status = tasks[t].status,
                               !.new_status = last'.arg,
                               !.progress = (done * 10000) \div Len(ts)]]_vars

\* a COMPLETED task has been moved to FAILED: the event carries both and the
\* progress after the move
C25_Witness ==
    /\ last.op = "update"
    /\ last.event.type = "task_updated"
    /\ last.event.old_status = "completed"
    /\ last.event.new_status = "failed"
    /\ last.event.progress = 0

\* C26: a task's error list only grows at its end: an update_task appends the
\* strings of its request, in their order, to the list as it was, an update
\* without errors leaves the list as it was, and no other step changes it.
C26_ErrorsAppendOnly ==
    [][\A t \in TaskIds :
          LET given == SubSeq(serial'[t].errors, Len(serial[t].errors) + 1,
                              Len(serial'[t].errors))
          IN /\ tasks'[t].errors = tasks[t].errors \o given
             /\ SubSeq(tasks'[t].errors, 1, Len(tasks[t].errors)) = tasks[t].errors
             /\ (last'.op # "update" \/ last'.task # t) => given = <<>>]_vars

\* an update has appended e2 to a list that held e1
C26_Witness ==
    /\ last.op = "update"
    /\ last.task = 1
    /\ tasks[1].errors = <<"e1", "e2">>

\* C27: status transitions are unrestricted: an update_task of a stored task
\* to any TaskStatus value succeeds, whatever the task's status is, and the
\* task has that status afterwards.
C27_AnyTransition ==
    [][(/\ last'.op = "update"
        /\ last'.arg \in TaskStatus
        /\ find_task(last'.task) # None) =>
          /\ last'.resp \in {"Task updated successfully", "suspended"}
          /\ tasks'[last'.task].status = last'.arg]_vars

\* a COMPLETED task has been moved back to PENDING
C27_Witness ==
    /\ last.op = "update"
    /\ last.resp = "Task updated successfully"
    /\ last.event.old_status = "completed"
    /\ last.arg = "pending"
    /\ tasks[last.task].status = "pending"

\* C28: the assignment loop calls assign_tasks only for a workflow that is
\* EXECUTING when it is called, and in each tick for every workflow that is
\* EXECUTING: the loop does not go to sleep while a workflow it has not yet
\* come to is EXECUTING.
C28_AssignExactlyExecuting ==
    [][/\ assign_loop'.pc = "assign" =>
             /\ assign_loop'.wf \in Stored
             /\ (assign_loop'.wf # assign_loop.wf \/ assign_loop.pc # "assign") =>
                   workflows_storage'[assign_loop'.wf].status = "executing"
       /\ (assign_loop.pc = "assign" /\ assign_loop'.pc = "sleep") =>
             ~ \E v \in Stored : /\ Order(v) > Order(assign_loop.wf)
                                  /\ workflows_storage[v].status = "executing"]_vars

\* C29: workflows are never deleted: a workflow id that is in the store is
\* in the store after every step.
C29_NeverDeleted ==
    [][\A w \in Stored : w \in DOMAIN workflows_storage']_vars

\* two workflows are stored, one FAILED, after a task was decomposed
C29_Witness ==
    /\ Stored = {"w1", "w2"}
    /\ \E w \in Stored : workflows_storage[w].status = "failed"
    /\ \E w \in Stored : Len(workflows_storage[w].tasks) # 1 \/
                          workflows_storage[w].tasks[1] > 2

\* C30: decompose_task of task T changes no Task object and no agent: the
\* dependency lists, statuses, results and errors of all tasks and the
\* current_tasks and the agents of every workflow are what they were, so a
\* dependency on T stays, dangling, once T is out of the sequence.
C30_DecomposeFrame ==
    [][last'.op \in {"decompose", "decompose_call"} =>
          /\ \A t \in TaskIds : tasks'[t] = tasks[t]
          /\ current_tasks' = current_tasks
          /\ \A w \in Stored : /\ workflows_storage'[w].agents = workflows_storage[w].agents
                               /\ workflows_storage'[w].status = workflows_storage[w].status]_vars

\* task 1 has been spliced out of a sequence that holds task 2, which was
\* updated before and still depends on task 1
C30_Witness ==
    /\ last.op = "decompose"
    /\ last.event.type = "task_decomposed"
    /\ last.task = 1
    /\ last.event.subtasks_count > 0
    /\ 2 \in Range(workflows_storage[last.wf].tasks)
    /\ 1 \notin Range(workflows_storage[last.wf].tasks)
    /\ tasks[2].dependencies = <<1>>
    /\ tasks[2].status = "completed"

\* C31: of the decompose_task requests that resolved the same task T before
\* any of them spliced, at most one splices: a request that resumes when T is
\* no longer in the sequence answers 500, leaves every task sequence as it was
\* and hands no event to broadcast; one that resumes with subtasks while T is
\* in the sequence replaces T; and a task that has left a sequence never
\* returns to one.
C31_SplicedAtMostOnce ==
    [][/\ last'.op = "decompose" =>
            LET w == last'.wf
                T == last'.task
                ts == workflows_storage[w].tasks
            IN /\ T \notin Range(ts) =>
                     /\ last'.resp = "500"
                     /\ last'.event = NoEvent
                     /\ \A v \in Stored : workflows_storage'[v].tasks = workflows_storage[v].tasks
               /\ (T \in Range(ts) /\ last'.arg # "decomposer raised") =>
                     /\ T \notin Range(workflows_storage'[w].tasks)
                     /\ last'.event.type = "task_decomposed"
       /\ \A v \in Stored, t \in TaskIds :
             (t < next_task_id /\ t \notin Range(workflows_storage[v].tasks))
                => t \notin Range(workflows_storage'[v].tasks)]_vars

\* a second request for task 1 resumes with subtasks after the first one has
\* put its own subtasks in the place of task 1
C31_Witness ==
    /\ last.op = "decompose"
    /\ last.arg = "index raised"
    /\ last.resp = "500"
    /\ last.task = 1
    /\ next_task_id > 4
    /\ workflows_storage[last.wf].tasks = <<3, 2>>

\* C32: a request hands one event to broadcast when it succeeds and none when
\* it is rejected: create -> workflow_created; start of a stored workflow
\* that is not EXECUTING -> workflow_started; update -> task_updated;
\* decompose -> task_decomposed naming the removed task, its subtasks_count
\* the number of tasks put in its place.  While its broadcast runs a handler
\* hands nothing more, and the broadcast that returns is that of its event.
C32_OneEventPerRequest ==
    [][LET op == last'.op
           e == last'.event
           w == last'.wf
           T == last'.task
       IN /\ op = "create" =>
               IF last'.resp = "500" THEN e = NoEvent
               ELSE /\ e.type = "workflow_created" /\ e.workflow_id = w
                    /\ w \in Stored' \ Stored
          /\ op = "start" =>
               IF w \in Stored /\ workflows_storage[w].status # "executing"
               THEN e.type = "workflow_started" /\ e.workflow_id = w
               ELSE e = NoEvent
          /\ op = "update" =>
               IF find_task(T) # None /\ last'.arg \in TaskStatus
               THEN /\ e.type = "task_updated" /\ e.task_id = T
                    /\ e.workflow_id = w
               ELSE e = NoEvent
          /\ op = "decompose_call" => e = NoEvent
          /\ op = "decompose" =>
               IF last'.resp = "500"
               THEN e = NoEvent
               ELSE /\ e.type = "task_decomposed" /\ e.task_id = T
                    /\ e.workflow_id = w
                    /\ T \in Range(workflows_storage[w].tasks)
                    /\ T \notin Range(workflows_storage'[w].tasks)
                    /\ e.subtasks_count = Len(workflows_storage'[w].tasks)
                                            - Len(workflows_storage[w].tasks) + 1
          /\ op = "send" => e = NoEvent
          /\ \A h \in HandlerIds :
               /\ (handlers[h].pc = "send" /\ handlers'[h].pc = "send")
                     => handlers'[h].event = handlers[h].event
               /\ (handlers[h].pc = "send" /\ handlers'[h].pc = "idle")
                     => op = "return" /\ e = handlers[h].event]_vars

\* the broadcast of a decomposition of task 1 into MaxSubtasks subtasks has
\* returned to its handler, after deliveries
C32_Witness ==
    /\ last.op = "return"
    /\ last.event.type = "task_decomposed"
    /\ last.event.task_id = 1
    /\ last.event.subtasks_count = MaxSubtasks
    /\ last.delivered # {}
    /\ Len(workflows_storage["w1"].tasks) = MaxSubtasks + 1

\* C33: the state change precedes the notification: from the moment an
\* event is handed to broadcast, hence whenever a subscriber is sent it and
\* ever after it has received it, the workflow of a workflow_created event is
\* in the store and the task of a task_decomposed event is replaced in its
\* workflow's task sequence.
C33_StateChangePrecedesNotification ==
    LET Announced(e) ==
            /\ e.type = "workflow_created" => e.workflow_id \in Stored
            /\ e.type = "task_decomposed" =>
                  /\ e.workflow_id \in Stored
                  /\ e.task_id \notin Range(workflows_storage[e.workflow_id].tasks)
    IN /\ \A h \in HandlerIds :
             handlers[h].pc = "send" => Announced(handlers[h].event)
       /\ \A c \in DOMAIN received :
             \A i \in 1..Len(received[c].events) : Announced(received[c].events[i])

\* the subscriber has received workflow_created and then, from a broadcast
\* that has just returned, task_decomposed for task 1
C33_Witness ==
    /\ last.op = "return"
    /\ last.event.type = "task_decomposed"
    /\ last.event.task_id = 1
    /\ "c1" \in last.delivered
    /\ "c1" \in DOMAIN received
    /\ Len(received["c1"].events) = 2
    /\ received["c1"].events[1].type = "workflow_created"
    /\ received["c1"].events[2] = last.event

\* C34: when update U1 (to IN_PROGRESS) and then update U2 (to COMPLETED) of
\* one task are applied to the store, every subscriber that receives both
\* task_updated events receives U1's before U2's, and the old_status of U2's
\* event is the new_status of U1's, however the broadcasts of the two
\* handlers interleave.
C34_UpdateEventsInStoreOrder ==
    \A c \in DOMAIN received :
        LET ev == received[c].events
            U(i, st) == ev[i].type = "task_updated" /\ ev[i].new_status = st
        IN /\ \A i, j \in 1..Len(ev) :
                 (U(i, "in_progress") /\ U(j, "completed")) => i < j
           /\ \A j \in 1..Len(ev) :
                 U(j, "completed") => ev[j].old_status = "in_progress"

\* C35: an accepted update_task never changes the task's assigned_agent_id;
\* to a status other than COMPLETED it leaves the task's completed_at and
\* every agent's current_tasks as they were; to COMPLETED it changes at most
\* the current_tasks of the agent the task is assigned to, and changes no
\* agent, and still succeeds, when the task has no agent, the agent is not of
\* the workflow or the agent does not hold the task.
C35_UpdateFrame ==
    [][(/\ last'.op = "update"
        /\ find_task(last'.task) # None
        /\ last'.arg \in TaskStatus)
       => LET T == last'.task
              aid == tasks[T].assigned_agent_id
              workflow == workflows_storage[find_task(T)]
          IN /\ tasks'[T].assigned_agent_id = aid
             /\ last'.arg # "completed" =>
                   /\ tasks'[T].completed_at = tasks[T].completed_at
                   /\ current_tasks' = current_tasks
             /\ last'.arg = "completed" =>
                   /\ \A a \in AgentIds \ {aid} : current_tasks'[a] = current_tasks[a]
                   /\ aid # None => current_tasks'[aid] \in
                                       {current_tasks[aid], current_tasks[aid] \ {T}}
                   /\ (\/ aid = None
                       \/ aid \notin workflow.agents
                       \/ T \notin current_tasks[aid])
                      => /\ current_tasks' = current_tasks
                         /\ last'.resp \in {"Task updated successfully", "suspended"}
                         /\ last'.event.type = "task_updated"]_vars

\* a task that was assigned and completed, so that its agent no longer holds
\* it, has been updated to COMPLETED again
C35_Witness ==
    /\ last.op = "update"
    /\ last.arg = "completed"
    /\ last.event.old_status = "completed"
    /\ last.resp = "Task updated successfully"
    /\ tasks[last.task].assigned_agent_id # None
    /\ \A a \in AgentIds : last.task \notin current_tasks[a]

\* C36: update_task and decompose_task on a task of workflow A leave every
\* other workflow as it was (its status, its task sequence, its Task objects
\* and its agents' current_tasks), and update_task leaves every other task
\* and the status and the task sequence of A as they were.
C36_OtherWorkflowsUntouched ==
    [][last'.op \in {"update", "decompose_call", "decompose"} =>
          LET A == last'.wf
              T == last'.task
          IN /\ \A w \in Stored \ {A} :
                   /\ workflows_storage'[w] = workflows_storage[w]
                   /\ \A t \in Range(workflows_storage[w].tasks) : tasks'[t] = tasks[t]
                   /\ \A a \in workflows_storage[w].agents :
                         current_tasks'[a] = current_tasks[a]
             /\ last'.op = "update" =>
                   /\ \A t \in TaskIds \ {T} : tasks'[t] = tasks[t]
                   /\ workflows_storage' = workflows_storage]_vars

\* a task of w1 has been updated to COMPLETED and its agent released while
\* w2 is EXECUTING and its agent holds one of its tasks
C36_Witness ==
    /\ last.op = "update"
    /\ last.wf = "w1"
    /\ last.arg = "completed"
    /\ last.event.old_status = "in_progress"
    /\ Stored = {"w1", "w2"}
    /\ workflows_storage["w2"].status = "executing"
    /\ current_tasks["a3"] = {3}
    /\ current_tasks["a1"] = {}

\* C37: a broadcast changes the registered connections only when it
\* returns, and then it removes exactly the connections whose send raised
\* during it: every other connection, those it delivered to included, stays
\* registered in its place, and removing a failed connection that is no
\* longer registered changes nothing.
C37_BroadcastRemovesOnlyFailed ==
    [][/\ last'.op = "send" => active_connections' = active_connections
       /\ last'.op = "return" =>
             /\ active_connections' =
                   SelectSeq(active_connections, LAMBDA c : c \notin last'.failed)
             /\ \A c \in last'.delivered :
                   c \in Range(active_connections) => c \in Range(active_connections')
             /\ last'.delivered \cap last'.failed = {}]_vars

\* a broadcast has returned after delivering to one connection and failing
\* on two, while another broadcast is in progress
C37_Witness ==
    /\ last.op = "return"
    /\ Cardinality(last.failed) = 2
    /\ last.delivered # {}
    /\ last.delivered \subseteq Range(active_connections)
    /\ Range(active_connections) \cap last.failed = {}
    /\ \E h \in HandlerIds : handlers[h].pc = "send"

\* C38: start_workflow with an id that is not in the store answers 404,
\* launches no execution, hands no event to broadcast and leaves the store,
\* the tasks, the agents, the handlers and the connections as they were.
C38_StartUnknownNotFound ==
    [][(last'.op = "start" /\ last'.wf \notin Stored)
       => /\ last'.resp = "404"
          /\ last'.event = NoEvent
          /\ UNCHANGED <<workflows_storage, tasks, current_tasks, next_task_id,
                         executions, handlers, active_connections, received>>]_vars

\* with w1 stored and a subscriber registered, a start of the unknown w2 has
\* been answered 404
C38_Witness ==
    /\ last.op = "start"
    /\ last.wf = "w2"
    /\ last.resp = "404"
    /\ Stored = {"w1"}
    /\ active_connections # <<>>
    /\ \A w \in WorkflowIds : Alive(w) = 0

====
